---- MODULE Spec2Model ----
(***************************************************************************)
(* Model of src/index.js: the Docker event subscriber that fills the       *)
(* in-memory registry `db`, and the reverse proxy (HTTP requests and       *)
(* WebSocket upgrades) that reads it.                                      *)
(*                                                                         *)
(* Strings are sequences of tokens: a token is a label ("web1"), a         *)
(* separator ("/", ".", ":") or, in a port key, a single digit.  The       *)
(* string operations of the code (startsWith, slice, split, endsWith,      *)
(* parseInt, template concatenation) are operators on these sequences.     *)
(***************************************************************************)
EXTENDS Integers, Sequences, FiniteSets, TLC

VARIABLES feed, db, tasks, writer, inflight, crashed, last

vars == <<feed, db, tasks, writer, inflight, crashed, last>>

(***************************************************************************)
(* Bounds of the model.                                                    *)
(***************************************************************************)
\* start events whose handler reached `await container.inspect()`
MaxEvents == 2
\* requests and upgrades handed to the proxy and not yet finished
MaxInflight == 1

(***************************************************************************)
(* Sequence helpers behind the JavaScript string methods.                  *)
(***************************************************************************)
\* index of the first occurrence of token c in s, 0 when there is none
IndexOf(s, c) ==
    IF \E i \in 1..Len(s) : s[i] = c
    THEN CHOOSE i \in 1..Len(s) : s[i] = c /\ \A j \in 1..(i - 1) : s[j] # c
    ELSE 0

\* s.split(c)[0]: everything before the first c, the whole of s without one
SplitFirst(s, c) ==
    IF IndexOf(s, c) = 0 THEN s ELSE SubSeq(s, 1, IndexOf(s, c) - 1)

\* s.endsWith(suffix)
EndsWith(s, suffix) ==
    /\ Len(s) >= Len(suffix)
    /\ SubSeq(s, Len(s) - Len(suffix) + 1, Len(s)) = suffix

(***************************************************************************)
(* JavaScript values.                                                      *)
(***************************************************************************)
\* the value of a missing property
Undefined == "undefined"
\* the result of parseInt on a string with no leading digit
NaN == -1
\* radix passed to parseInt
Radix == 10

Digits == {"0", "1", "2", "3", "4", "5", "6", "7", "8", "9"}

DigitVal(c) ==
    CASE c = "0" -> 0 [] c = "1" -> 1 [] c = "2" -> 2 [] c = "3" -> 3
      [] c = "4" -> 4 [] c = "5" -> 5 [] c = "6" -> 6 [] c = "7" -> 7
      [] c = "8" -> 8 [] c = "9" -> 9

RECURSIVE ParseDigits(_, _)
\* value of the longest prefix of digits of s, acc is the value read so far
ParseDigits(s, acc) ==
    IF s = <<>> \/ Head(s) \notin Digits
    THEN acc
    ELSE ParseDigits(Tail(s), acc * Radix + DigitVal(Head(s)))

\* parseInt(s, 10): NaN when s does not start with a digit
ParseInt(s) ==
    IF s = <<>> \/ Head(s) \notin Digits THEN NaN ELSE ParseDigits(s, 0)

\* !n for a number n
FalsyNumber(n) == n = 0 \/ n = NaN

\* the value null
Null == "null"

\* !s for a string-valued variable s that may hold null
FalsyString(s) == s = Null \/ s = Undefined \/ s = ""

(***************************************************************************)
(* Inputs: what the runtime can put on the event feed and return from an   *)
(* inspection call.                                                        *)
(***************************************************************************)
ContainerIds == {"c1"}

\* event.Actor: absent, present without ID, or present with an ID
Actors ==
    {[present |-> FALSE, ID |-> Undefined], [present |-> TRUE, ID |-> Undefined]}
        \cup {[present |-> TRUE, ID |-> c] : c \in ContainerIds}

\* container start events with every kind of Actor, and other lifecycle
\* events of containers and of other object types
Events ==
    [Type : {"container"}, Action : {"start"}, Actor : Actors]
        \cup [Type : {"container"}, Action : {"stop", "die", "destroy"},
              Actor : {[present |-> TRUE, ID |-> "c1"]}]
        \cup [Type : {"network"}, Action : {"start"},
              Actor : {[present |-> TRUE, ID |-> "c1"]}]

\* A chunk of the feed is a sequence of JSON texts.
Chunks ==
    {<<e>> : e \in Events}
        \cup {<<>>}
        \cup {<<e, e>> : e \in {x \in Events : x.Actor.ID = "c1" /\ x.Action = "start"
                                                /\ x.Type = "container"}}

IpA == "10.0.0.5"
IpB == "10.0.0.6"

\* containerInfo.Name
RawNames == {<<"/", "web1">>, <<"web1">>, <<"/", "my", ".", "app">>}

\* containerInfo.NetworkSettings.Networks: null, or the addresses of the
\* attached networks in metadata order ("" for a network without address)
NetworkSettings ==
    {[null |-> TRUE, vals |-> <<>>]}
        \cup {[null |-> FALSE, vals |-> v] :
                v \in {<<IpA>>, <<"">>, <<"", IpB>>, <<IpB, IpA>>}}

Tcp80 == <<"8", "0", "/", "tcp">>
Tcp8080 == <<"8", "0", "8", "0", "/", "tcp">>
Tcp3000 == <<"3", "0", "0", "0", "/", "tcp">>
Tcp0 == <<"0", "/", "tcp">>
Udp53 == <<"5", "3", "/", "udp">>

\* containerInfo.Config.ExposedPorts: null/absent, or its keys in metadata order
ExposedPortSets ==
    {[null |-> TRUE, keys |-> <<>>]}
        \cup {[null |-> FALSE, keys |-> k] :
                k \in {<<>>, <<Udp53>>, <<Tcp80>>, <<Tcp8080, Tcp80>>,
                       <<Udp53, Tcp3000, Tcp8080>>, <<Tcp0, Tcp3000>>}}

\* Inspection results.  Under the name "/web1": two containers that resolve
\* (one declaring 80/tcp after another TCP port), one on two networks with
\* other ports, and every way of lacking an address or a TCP port.  Under the
\* other names: one container that resolves.
Infos ==
    {i \in [Name : RawNames, Networks : NetworkSettings, ExposedPorts : ExposedPortSets] :
        \/ i.Networks.vals = <<IpA>> /\ i.ExposedPorts.keys = <<Tcp80>>
        \/ /\ i.Name = <<"/", "web1">>
           /\ \/ /\ i.Networks.vals = <<IpA>>
                 /\ i.ExposedPorts.keys # <<Udp53, Tcp3000, Tcp8080>>
              \/ /\ i.Networks.vals # <<IpB, IpA>>
                 /\ i.ExposedPorts.keys = <<Tcp80>>
              \/ /\ i.Networks.vals = <<IpB, IpA>>
                 /\ i.ExposedPorts.keys = <<Udp53, Tcp3000, Tcp8080>>}

\* what `await container.inspect()` can produce: a rejection or metadata
InspectFailure == [ok |-> FALSE]
InspectResults == {InspectFailure} \cup {[ok |-> TRUE, info |-> i] : i \in Infos}

(***************************************************************************)
(* Target resolution (the body of the try block after the inspection).     *)
(***************************************************************************)
\* Name.startsWith('/') ? Name.slice(1) : Name
ContainerName(name) ==
    IF name # <<>> /\ Head(name) = "/" THEN Tail(name) ELSE name

\* IpAddress that skips networks without an address: the first address found
IpAddressFirstNonEmpty(networks) ==
    LET hits == IF networks.null
                THEN {}
                ELSE {k \in 1..Len(networks.vals) : ~FalsyString(networks.vals[k])}
    IN IF hits = {}
       THEN Null
       ELSE networks.vals[CHOOSE k \in hits : \A j \in hits : k <= j]

\* the address of the first network, null without one
IpAddress(networks) ==
    IF networks.null
    THEN Null
    ELSE IF networks.vals = <<>>
         THEN Null
         ELSE IF FalsyString(networks.vals[1]) THEN Null ELSE networks.vals[1]

\* exposedPorts[key] is truthy: the key is declared (its value is an object)
Declares(keys, key) == \E i \in 1..Len(keys) : keys[i] = key

\* FindTcpKey without the protocol test: the first key of any protocol
FindFirstKey(keys) == IF keys = <<>> THEN <<>> ELSE keys[1]

\* Object.keys(exposedPorts).find(port => port.endsWith('/tcp'))
FindTcpKey(keys) ==
    LET hits == {i \in 1..Len(keys) : EndsWith(keys[i], <<"/", "tcp">>)}
    IN IF hits = {}
       THEN <<>>
       ELSE keys[CHOOSE i \in hits : \A j \in hits : i <= j]

\* DefaultPort without the priority of port 80
DefaultPortFirstTcp(exposed) ==
    LET keys == IF exposed.null THEN <<>> ELSE exposed.keys
    IN IF FindTcpKey(keys) # <<>>
       THEN ParseInt(SplitFirst(FindTcpKey(keys), "/"))
       ELSE 0

\* 80 when declared, else the number of the first TCP key, else null (0 here:
\* both are falsy and the code only tests !defaultPort)
DefaultPort(exposed) ==
    LET keys == IF exposed.null THEN <<>> ELSE exposed.keys
    IN IF Declares(keys, Tcp80)
       THEN 80
       ELSE IF FindTcpKey(keys) # <<>>
            THEN ParseInt(SplitFirst(FindTcpKey(keys), "/"))
            ELSE 0

\* `http://${ipAddress}:${defaultPort}`
Target(ipAddress, defaultPort) ==
    <<"http://", ipAddress, ":", ToString(defaultPort)>>

\* the object stored by db.set
Record(containerName, ipAddress, defaultPort) ==
    [containerName |-> containerName,
     ipAddress |-> ipAddress,
     defaultPort |-> defaultPort,
     target |-> Target(ipAddress, defaultPort)]

\* placeholder for "no record"
NoRecord ==
    [containerName |-> <<>>, ipAddress |-> Null, defaultPort |-> 0, target |-> <<>>]

\* Resolve without the `if (!defaultPort)` guard
ResolveNoPortGuard(info) ==
    LET containerName == ContainerName(info.Name)
        ipAddress == IpAddress(info.Networks)
        defaultPort == DefaultPort(info.ExposedPorts)
    IN IF FalsyString(ipAddress)
       THEN [ok |-> FALSE, log |-> "Could not determine IP address", rec |-> NoRecord]
       ELSE [ok |-> TRUE, log |-> "Registering container",
             rec |-> Record(containerName, ipAddress, defaultPort)]

\* outcome of lines 48-89 on an inspection result: which log line is written
\* and, on success, the record to store
Resolve(info) ==
    LET containerName == ContainerName(info.Name)
        ipAddress == IpAddress(info.Networks)
        defaultPort == DefaultPort(info.ExposedPorts)
    IN IF FalsyString(ipAddress)
       THEN [ok |-> FALSE, log |-> "Could not determine IP address", rec |-> NoRecord]
       ELSE IF FalsyNumber(defaultPort)
            THEN [ok |-> FALSE, log |-> "No default TCP port found", rec |-> NoRecord]
            ELSE [ok |-> TRUE, log |-> "Registering container",
                  rec |-> Record(containerName, ipAddress, defaultPort)]

(***************************************************************************)
(* The registry: const db = new Map().                                     *)
(***************************************************************************)
DbHas(map, key) == key \in DOMAIN map

DbGet(map, key) == map[key]

\* DbSet that keeps the record of a key already present
DbSetIfAbsent(map, key, value) ==
    [k \in (DOMAIN map) \cup {key} |-> IF k \in DOMAIN map THEN map[k] ELSE value]

DbSet(map, key, value) ==
    [k \in (DOMAIN map) \cup {key} |-> IF k = key THEN value ELSE map[k]]

EmptyMap == [k \in {} |-> NoRecord]

(***************************************************************************)
(* State.                                                                  *)
(*   feed      the event subscription: "connecting", "open", "failed" (it  *)
(*             never opened) or "closed" (it ended or broke when open)     *)
(*   db        the registry, service name -> record                        *)
(*   tasks     the 'data' handler invocations that called inspect(), in    *)
(*             the order their events were delivered; pc = "await" while   *)
(*             the inspection is pending                                   *)
(*   writer    for each key of db, the index in tasks of the invocation    *)
(*             whose db.set stored the current record                      *)
(*   inflight  requests and upgrades handed to the proxy, not yet finished *)
(*   crashed   an exception escaped every handler: the process is gone     *)
(*   last      the handler step that ran last: its input and what it       *)
(*             logged or answered                                          *)
(***************************************************************************)
Init ==
    /\ feed = "connecting"
    /\ db = EmptyMap
    /\ tasks = <<>>
    /\ writer = <<>>
    /\ inflight = <<>>
    /\ crashed = FALSE
    /\ last = [op |-> "boot"]

(***************************************************************************)
(* Discovery: docker.getEvents and the stream's 'data' handler.            *)
(***************************************************************************)
\* the callback of docker.getEvents: with an error no listener is attached
GetEventsCallback(err) ==
    /\ ~crashed
    /\ feed = "connecting"
    /\ feed' = IF err THEN "failed" ELSE "open"
    /\ last' = [op |-> "getEvents", err |-> err]
    /\ UNCHANGED <<db, tasks, writer, inflight, crashed>>

\* JSON.parse(chunk.toString()): one JSON text parses, anything else throws
JSONParse(chunk) ==
    IF Len(chunk) = 1
    THEN [ok |-> TRUE, event |-> chunk[1]]
    ELSE [ok |-> FALSE]

\* IsContainerStart without the test of the event's type
IsStartAction(event) == event.Action = "start"

\* event.Type === 'container' && event.Action === 'start'
IsContainerStart(event) == event.Type = "container" /\ event.Action = "start"

\* DataOutcome without the `if (!containerId)` guard
DataOutcomeNoIdCheck(chunk) ==
    LET parsed == JSONParse(chunk)
    IN IF ~parsed.ok
       THEN [inspect |-> FALSE, log |-> "Error parsing event data"]
       ELSE IF ~IsContainerStart(parsed.event)
            THEN [inspect |-> FALSE, log |-> "none"]
            ELSE IF ~parsed.event.Actor.present
                 THEN [inspect |-> FALSE, log |-> "Error parsing event data"]
                 ELSE [inspect |-> TRUE, log |-> "none"]

\* The synchronous part of the 'data' handler, up to the inspection call:
\* what it logs and whether it goes on to inspect.
DataOutcome(chunk) ==
    LET parsed == JSONParse(chunk)
    IN IF ~parsed.ok
       THEN [inspect |-> FALSE, log |-> "Error parsing event data"]
       ELSE IF ~IsContainerStart(parsed.event)
            THEN [inspect |-> FALSE, log |-> "none"]
            ELSE IF ~parsed.event.Actor.present
                 \* event.Actor.ID throws a TypeError, caught by the outer catch
                 THEN [inspect |-> FALSE, log |-> "Error parsing event data"]
                 ELSE IF FalsyString(parsed.event.Actor.ID)
                      THEN [inspect |-> FALSE, log |-> "Container ID is undefined"]
                      ELSE [inspect |-> TRUE, log |-> "none"]

\* OnData that also handles container die events, by deleting the records
\* stored for that container
OnDataEvictOnDie(chunk) ==
    /\ ~crashed
    /\ feed = "open"
    /\ LET out == DataOutcome(chunk)
           died == /\ JSONParse(chunk).ok
                   /\ chunk[1].Type = "container"
                   /\ chunk[1].Action = "die"
       IN /\ out.inspect => Len(tasks) < MaxEvents
          /\ tasks' = IF out.inspect
                      THEN Append(tasks, [containerId |-> chunk[1].Actor.ID,
                                          pc |-> "await", rec |-> NoRecord])
                      ELSE tasks
          /\ db' = IF died
                   THEN [k \in {n \in DOMAIN db :
                                  tasks[writer[n]].containerId # chunk[1].Actor.ID} |-> db[k]]
                   ELSE db
          /\ last' = [op |-> "data", chunk |-> chunk, inspect |-> out.inspect,
                      log |-> out.log]
    /\ UNCHANGED <<feed, writer, inflight, crashed>>

\* stream.on('data', ...) up to `await container.inspect()`
OnData(chunk) ==
    /\ ~crashed
    /\ feed = "open"
    /\ LET out == DataOutcome(chunk)
       IN /\ out.inspect => Len(tasks) < MaxEvents
          /\ tasks' = IF out.inspect
                      THEN Append(tasks, [containerId |-> chunk[1].Actor.ID,
                                          pc |-> "await", rec |-> NoRecord])
                      ELSE tasks
          /\ last' = [op |-> "data", chunk |-> chunk, inspect |-> out.inspect,
                      log |-> out.log]
    /\ UNCHANGED <<feed, db, writer, inflight, crashed>>

\* StreamBreak where an 'error' of the stream, having no listener, is thrown
StreamBreakUnhandled(kind) ==
    /\ ~crashed
    /\ feed = "open"
    /\ feed' = "closed"
    /\ crashed' = (kind = "error")
    /\ last' = [op |-> "streamBreak", kind |-> kind]
    /\ UNCHANGED <<db, tasks, writer, inflight>>

\* the stream given to the getEvents callback ends or fails.  Only a 'data'
\* listener is attached: no handler of the program runs, and no 'data' event
\* follows.  The stream is the HTTP response of the runtime's events
\* endpoint, which emits 'error' only to listeners.
StreamBreak(kind) ==
    /\ ~crashed
    /\ feed = "open"
    /\ feed' = "closed"
    /\ last' = [op |-> "streamBreak", kind |-> kind]
    /\ UNCHANGED <<db, tasks, writer, inflight, crashed>>

\* InspectSettled without the catch around the inspection: a rejection is an
\* unhandled promise rejection, which ends the process
InspectSettledUncaught(i, result) ==
    /\ ~crashed
    /\ i \in 1..Len(tasks)
    /\ tasks[i].pc = "await"
    /\ LET r == IF result.ok
                THEN Resolve(result.info)
                ELSE [ok |-> FALSE, log |-> "none", rec |-> NoRecord]
       IN /\ db' = IF r.ok THEN DbSet(db, r.rec.containerName, r.rec) ELSE db
          /\ writer' = IF r.ok
                       THEN [k \in (DOMAIN writer) \cup {r.rec.containerName} |->
                               IF k = r.rec.containerName THEN i ELSE writer[k]]
                       ELSE writer
          /\ tasks' = [tasks EXCEPT ![i] =
                         [containerId |-> tasks[i].containerId,
                          pc |-> IF r.ok THEN "registered" ELSE "discarded",
                          rec |-> r.rec]]
          /\ last' = [op |-> "inspected", task |-> i, result |-> result,
                      log |-> r.log]
    /\ crashed' = ~result.ok
    /\ UNCHANGED <<feed, inflight>>

\* InspectSettled whose db.set also redirects the requests already forwarded
InspectSettledRedirects(i, result) ==
    /\ ~crashed
    /\ i \in 1..Len(tasks)
    /\ tasks[i].pc = "await"
    /\ LET r == IF result.ok
                THEN Resolve(result.info)
                ELSE [ok |-> FALSE, log |-> "Error inspecting container", rec |-> NoRecord]
       IN /\ db' = IF r.ok THEN DbSet(db, r.rec.containerName, r.rec) ELSE db
          /\ writer' = IF r.ok
                       THEN [k \in (DOMAIN writer) \cup {r.rec.containerName} |->
                               IF k = r.rec.containerName THEN i ELSE writer[k]]
                       ELSE writer
          /\ tasks' = [tasks EXCEPT ![i] =
                         [containerId |-> tasks[i].containerId,
                          pc |-> IF r.ok THEN "registered" ELSE "discarded",
                          rec |-> r.rec]]
          /\ last' = [op |-> "inspected", task |-> i, result |-> result,
                      log |-> r.log]
          /\ inflight' = [k \in 1..Len(inflight) |->
                            IF r.ok THEN [inflight[k] EXCEPT !.target = r.rec.target]
                                    ELSE inflight[k]]
    /\ UNCHANGED <<feed, crashed>>

\* The rest of the handler, run when the inspection of tasks[i] settles:
\* a rejection is logged, metadata is resolved and, on success, stored.
InspectSettled(i, result) ==
    /\ ~crashed
    /\ i \in 1..Len(tasks)
    /\ tasks[i].pc = "await"
    /\ LET r == IF result.ok
                THEN Resolve(result.info)
                ELSE [ok |-> FALSE, log |-> "Error inspecting container", rec |-> NoRecord]
       IN /\ db' = IF r.ok THEN DbSet(db, r.rec.containerName, r.rec) ELSE db
          /\ writer' = IF r.ok
                       THEN [k \in (DOMAIN writer) \cup {r.rec.containerName} |->
                               IF k = r.rec.containerName THEN i ELSE writer[k]]
                       ELSE writer
          /\ tasks' = [tasks EXCEPT ![i] =
                         [containerId |-> tasks[i].containerId,
                          pc |-> IF r.ok THEN "registered" ELSE "discarded",
                          rec |-> r.rec]]
          /\ last' = [op |-> "inspected", task |-> i, result |-> result,
                      log |-> r.log]
    /\ UNCHANGED <<feed, inflight, crashed>>

(***************************************************************************)
(* Router: the express middleware and the server's 'upgrade' handler.      *)
(***************************************************************************)
\* Host header values; <<>> is a request without one
Hosts ==
    {<<>>,
     <<"web1", ".", "localhost">>,
     <<"web1", ".", "localhost", ":", "80">>,
     <<"web1", ":", "80">>,
     <<"my", ".", "app", ".", "localhost">>,
     <<"unknown", ".", "localhost">>}

\* express's req.hostname: undefined without a Host header, else the header
\* up to its port separator
ReqHostname(host) ==
    IF host = <<>>
    THEN [defined |-> FALSE, val |-> <<>>]
    ELSE [defined |-> TRUE, val |-> SplitFirst(host, ":")]

\* hostname.split('.')[0]
Subdomain(hostname) == SplitFirst(hostname, ".")

\* !target for the target field of a record
FalsyTarget(target) == target = <<>>

NotFoundBody == [status |-> "error", message |-> "Container not found"]
InvalidTargetBody == [status |-> "error", message |-> "Invalid target configuration"]

\* RouteRequest whose 404 branch does not return: the request goes on to the
\* proxy with the target of a missing record
RouteRequestNoReturn(map, host) ==
    LET hostname == ReqHostname(host)
        subdomain == Subdomain(hostname.val)
    IN IF ~hostname.defined
       THEN [forward |-> FALSE, status |-> 500, body |-> "TypeError",
             subdomain |-> <<>>, target |-> <<>>]
       ELSE IF ~DbHas(map, subdomain)
            THEN [forward |-> TRUE, status |-> 404, body |-> NotFoundBody,
                  subdomain |-> subdomain, target |-> <<>>]
            ELSE [forward |-> TRUE, status |-> 0, body |-> "none",
                  subdomain |-> subdomain,
                  target |-> DbGet(map, subdomain).target]

\* What the middleware does with a request: the response it writes itself
\* (status # 0) or the target it hands the request to (forward).
RouteRequest(map, host) ==
    LET hostname == ReqHostname(host)
        subdomain == Subdomain(hostname.val)
    IN IF ~hostname.defined
       \* hostname.split throws; express answers with its error handler
       THEN [forward |-> FALSE, status |-> 500, body |-> "TypeError",
             subdomain |-> <<>>, target |-> <<>>]
       ELSE IF ~DbHas(map, subdomain)
            THEN [forward |-> FALSE, status |-> 404, body |-> NotFoundBody,
                  subdomain |-> subdomain, target |-> <<>>]
            ELSE IF FalsyTarget(DbGet(map, subdomain).target)
                 THEN [forward |-> FALSE, status |-> 500, body |-> InvalidTargetBody,
                       subdomain |-> subdomain, target |-> <<>>]
                 ELSE [forward |-> TRUE, status |-> 0, body |-> "none",
                       subdomain |-> subdomain,
                       target |-> DbGet(map, subdomain).target]

\* What the 'upgrade' handler does: the status line it ends the socket with
\* (status # 0) or the target it hands the socket to (forward).
RouteUpgrade(map, host) ==
    LET hostname == host
        subdomain == Subdomain(hostname)
    IN IF hostname = <<>>
       THEN [forward |-> FALSE, status |-> 400, line |-> "HTTP/1.1 400 Bad Request",
             subdomain |-> <<>>, target |-> <<>>]
       ELSE IF ~DbHas(map, subdomain)
            THEN [forward |-> FALSE, status |-> 404, line |-> "HTTP/1.1 404 Not Found",
                  subdomain |-> subdomain, target |-> <<>>]
            ELSE IF FalsyTarget(DbGet(map, subdomain).target)
                 THEN [forward |-> FALSE, status |-> 502,
                       line |-> "HTTP/1.1 502 Bad Gateway",
                       subdomain |-> subdomain, target |-> <<>>]
                 ELSE [forward |-> TRUE, status |-> 0, line |-> "none",
                       subdomain |-> subdomain,
                       target |-> DbGet(map, subdomain).target]

\* HandleRequest that waits until no inspection is pending
HandleRequestAfterInspections(host) ==
    /\ ~crashed
    /\ \A i \in 1..Len(tasks) : tasks[i].pc # "await"
    /\ LET r == RouteRequest(db, host)
       IN /\ r.forward => Len(inflight) < MaxInflight
          /\ inflight' = IF r.forward
                         THEN Append(inflight, [kind |-> "http", target |-> r.target,
                                                headersSent |-> FALSE])
                         ELSE inflight
          /\ last' = [op |-> "http", host |-> host, out |-> r]
    /\ UNCHANGED <<feed, db, tasks, writer, crashed>>

\* reverseProxyApp.use((req, res) => ...)
HandleRequest(host) ==
    /\ ~crashed
    /\ LET r == RouteRequest(db, host)
       IN /\ r.forward => Len(inflight) < MaxInflight
          /\ inflight' = IF r.forward
                         THEN Append(inflight, [kind |-> "http", target |-> r.target,
                                                headersSent |-> FALSE])
                         ELSE inflight
          /\ last' = [op |-> "http", host |-> host, out |-> r]
    /\ UNCHANGED <<feed, db, tasks, writer, crashed>>

\* reverseProxyServer.on('upgrade', (req, socket, head) => ...)
HandleUpgrade(host) ==
    /\ ~crashed
    /\ LET r == RouteUpgrade(db, host)
       IN /\ r.forward => Len(inflight) < MaxInflight
          /\ inflight' = IF r.forward
                         THEN Append(inflight, [kind |-> "ws", target |-> r.target,
                                                headersSent |-> FALSE])
                         ELSE inflight
          /\ last' = [op |-> "upgrade", host |-> host, out |-> r]
    /\ UNCHANGED <<feed, db, tasks, writer, crashed>>

(***************************************************************************)
(* The proxy: what happens to a request or socket handed to proxy.web or   *)
(* proxy.ws.  The backend may answer, or the connection to it may fail     *)
(* before or after its answer has started.                                 *)
(***************************************************************************)
Remove(seq, i) == SubSeq(seq, 1, i - 1) \o SubSeq(seq, i + 1, Len(seq))

\* proxy.on('error', (err, req, res) => ...): the listener of the proxy's
\* 'error' event
ProxyOnError(headersSent) ==
    [threw |-> FALSE,
     status |-> IF headersSent THEN 0 ELSE 502,
     body |-> "Bad gateway."]

\* the callback given to proxy.web: res.status(502).send('Bad gateway.');
\* send() sets headers, which throws once the headers have been sent
WebErrorCallback(headersSent) ==
    IF headersSent
    THEN [threw |-> TRUE, status |-> 0, body |-> "none"]
    ELSE [threw |-> FALSE, status |-> 502, body |-> "Bad gateway."]

\* WsErrorCallback that destroys the socket without writing a status line
WsErrorCallbackDestroy == [threw |-> FALSE, status |-> 0, line |-> "none"]

\* the callback given to proxy.ws: socket.end('HTTP/1.1 502 Bad Gateway\r\n\r\n')
WsErrorCallback == [threw |-> FALSE, status |-> 502, line |-> "HTTP/1.1 502 Bad Gateway"]

\* proxy.web and proxy.ws are called with a callback: the proxy reports an
\* error to the callback and emits 'error' only without one
WebHasCallback == TRUE

\* BackendError that also deletes the records pointing at the failed target
BackendErrorEvicts(i) ==
    /\ ~crashed
    /\ i \in 1..Len(inflight)
    /\ LET q == inflight[i]
           r == IF q.kind = "ws"
                THEN WsErrorCallback
                ELSE IF WebHasCallback
                     THEN WebErrorCallback(q.headersSent)
                     ELSE ProxyOnError(q.headersSent)
       IN /\ crashed' = r.threw
          /\ last' = [op |-> "backendError", req |-> q, out |-> r]
          /\ db' = [k \in {n \in DOMAIN db : db[n].target # q.target} |-> db[k]]
    /\ inflight' = Remove(inflight, i)
    /\ UNCHANGED <<feed, tasks, writer>>

\* an error of the outgoing request of inflight[i] (cannot connect, reset)
BackendError(i) ==
    /\ ~crashed
    /\ i \in 1..Len(inflight)
    /\ LET q == inflight[i]
           r == IF q.kind = "ws"
                THEN WsErrorCallback
                ELSE IF WebHasCallback
                     THEN WebErrorCallback(q.headersSent)
                     ELSE ProxyOnError(q.headersSent)
       IN /\ crashed' = r.threw
          /\ last' = [op |-> "backendError", req |-> q, out |-> r]
    /\ inflight' = Remove(inflight, i)
    /\ UNCHANGED <<feed, db, tasks, writer>>

\* the backend's response to the HTTP request inflight[i] starts: its status
\* and headers are written to the client
BackendResponse(i) ==
    /\ ~crashed
    /\ i \in 1..Len(inflight)
    /\ inflight[i].kind = "http"
    /\ ~inflight[i].headersSent
    /\ inflight' = [inflight EXCEPT ![i].headersSent = TRUE]
    /\ last' = [op |-> "backendResponse", req |-> inflight[i]]
    /\ UNCHANGED <<feed, db, tasks, writer, crashed>>

\* the backend's response to inflight[i] ends
BackendEnd(i) ==
    /\ ~crashed
    /\ i \in 1..Len(inflight)
    /\ inflight[i].kind = "http"
    /\ inflight[i].headersSent
    /\ inflight' = Remove(inflight, i)
    /\ last' = [op |-> "backendEnd", req |-> inflight[i]]
    /\ UNCHANGED <<feed, db, tasks, writer, crashed>>

\* the backend answers the upgrade inflight[i]: with 101 the socket is handed
\* off, with any other response that response is relayed to the socket
BackendUpgrade(i, switched) ==
    /\ ~crashed
    /\ i \in 1..Len(inflight)
    /\ inflight[i].kind = "ws"
    /\ inflight' = Remove(inflight, i)
    /\ last' = [op |-> "backendUpgrade", req |-> inflight[i], handoff |-> switched,
                line |-> IF switched THEN "none" ELSE "backend status line"]
    /\ UNCHANGED <<feed, db, tasks, writer, crashed>>

(***************************************************************************)
(* Management API: managementAPI.post('/container').  It talks to the      *)
(* runtime only: it never reads or writes db.                              *)
(***************************************************************************)
\* Requests to the management API: whether the image is already present,
\* which runtime call fails (if any) and the name the runtime gives the new
\* container.
ManagementRequests ==
    [exists : BOOLEAN,
     failsAt : {"none", "pull", "start"},
     Name : {<<"/", "web1">>, <<"/", "my", ".", "app">>}]

ManagementErrorBody == [status |-> "error", message |-> "Error starting container"]

\* the response of the handler: a pull is attempted only for a missing image;
\* any rejected call is answered 500 by the catch
ManagementOutcome(req) ==
    IF \/ (~req.exists /\ req.failsAt = "pull")
       \/ req.failsAt = "start"
    THEN [status |-> 500, body |-> ManagementErrorBody]
    ELSE [status |-> 200,
          body |-> [status |-> "success", message |-> "Container started",
                    container |-> ContainerName(req.Name) \o <<".", "localhost">>]]

\* managementAPI.post('/container', async (req, res) => ...)
ManagementPost(req) ==
    /\ ~crashed
    /\ last' = [op |-> "management", out |-> ManagementOutcome(req)]
    /\ UNCHANGED <<feed, db, tasks, writer, inflight, crashed>>

Next ==
    \/ \E err \in BOOLEAN : GetEventsCallback(err)
    \/ \E chunk \in Chunks : OnData(chunk)
    \/ \E kind \in {"end", "error"} : StreamBreak(kind)
    \/ \E i \in 1..MaxEvents, result \in InspectResults : InspectSettled(i, result)
    \/ \E host \in Hosts : HandleRequest(host)
    \/ \E host \in Hosts : HandleUpgrade(host)
    \/ \E i \in 1..MaxInflight : BackendError(i)
    \/ \E i \in 1..MaxInflight : BackendResponse(i)
    \/ \E i \in 1..MaxInflight : BackendEnd(i)
    \/ \E i \in 1..MaxInflight, switched \in BOOLEAN : BackendUpgrade(i, switched)
    \/ \E req \in ManagementRequests : ManagementPost(req)

Spec == Init /\ [][Next]_vars

(***************************************************************************)
(* Vocabulary of the properties, written from the specification's words    *)
(* and not from the operators above.                                       *)
(***************************************************************************)
RECURSIVE Concat(_)
\* the text spelled by a sequence of one-character strings
Concat(s) == IF s = <<>> THEN "" ELSE Head(s) \o Concat(Tail(s))

\* the container name with one leading "/" stripped
ServiceNameOf(info) ==
    IF Len(info.Name) >= 1 /\ info.Name[1] = "/"
    THEN SubSeq(info.Name, 2, Len(info.Name))
    ELSE info.Name

\* the addresses of the attached networks, in metadata order
AddressesOf(info) == IF info.Networks.null THEN <<>> ELSE info.Networks.vals

\* the declared port keys, in metadata order
PortKeysOf(info) == IF info.ExposedPorts.null THEN <<>> ELSE info.ExposedPorts.keys

IsTcpKey(key) == Len(key) >= 2 /\ key[Len(key)] = "tcp" /\ key[Len(key) - 1] = "/"

\* the positions of the declared TCP ports
TcpPositions(info) == {k \in 1..Len(PortKeysOf(info)) : IsTcpKey(PortKeysOf(info)[k])}

\* the port number, as text, of a port key
PortTextOf(key) == Concat(SubSeq(key, 1, Len(key) - 2))

\* the port the priority rule selects, as text: 80 when 80/tcp is declared,
\* else the first declared TCP port
SelectedPortText(info) ==
    IF \E k \in TcpPositions(info) : PortTextOf(PortKeysOf(info)[k]) = "80"
    THEN "80"
    ELSE PortTextOf(PortKeysOf(info)[CHOOSE k \in TcpPositions(info) :
                                        \A j \in TcpPositions(info) : k <= j])

\* the handler that ran last is the completion of an inspection that
\* returned metadata
Inspected == last.op = "inspected" /\ last.result.ok

----------------------------------------------------------------------------
\* C1 (as stated): after a start event whose container has some network with
\* an address and some declared TCP port is processed, the registry maps the
\* derived name to http://<ip>:<port>, <ip> an address of the container and
\* <port> chosen by the priority rule.
C1_AnyAddressRegisters ==
    (/\ Inspected
     /\ \E k \in 1..Len(AddressesOf(last.result.info)) :
            AddressesOf(last.result.info)[k] # ""
     /\ TcpPositions(last.result.info) # {})
        => /\ ServiceNameOf(last.result.info) \in DOMAIN db
           /\ \E k \in 1..Len(AddressesOf(last.result.info)) :
                /\ AddressesOf(last.result.info)[k] # ""
                /\ db[ServiceNameOf(last.result.info)].target =
                      <<"http://", AddressesOf(last.result.info)[k], ":",
                        SelectedPortText(last.result.info)>>

\* C1 (amended): the same for a container whose FIRST network carries an
\* address and whose selected TCP port is not 0; <ip> is the first network's
\* address.
C1_FirstAddressRegisters ==
    (/\ Inspected
     /\ AddressesOf(last.result.info) # <<>>
     /\ AddressesOf(last.result.info)[1] # ""
     /\ TcpPositions(last.result.info) # {}
     /\ SelectedPortText(last.result.info) # "0")
        => /\ ServiceNameOf(last.result.info) \in DOMAIN db
           /\ db[ServiceNameOf(last.result.info)].target =
                 <<"http://", AddressesOf(last.result.info)[1], ":",
                   SelectedPortText(last.result.info)>>

\* C1 witness: 80/tcp declared after 8080/tcp, and port 80 registered
C1_Witness ==
    /\ Inspected
    /\ PortKeysOf(last.result.info) = <<Tcp8080, Tcp80>>
    /\ <<"web1">> \in DOMAIN db
    /\ db[<<"web1">>].target = <<"http://", IpA, ":", "80">>

----------------------------------------------------------------------------
\* everything before the first "." of a sequence of tokens
FirstLabel(x) ==
    IF \E k \in 1..Len(x) : x[k] = "."
    THEN SubSeq(x, 1, (CHOOSE k \in 1..Len(x) :
                          x[k] = "." /\ \A j \in 1..(k - 1) : x[j] # ".") - 1)
    ELSE x

\* a host header without its port suffix
HostnameOf(host) ==
    IF \E k \in 1..Len(host) : host[k] = ":"
    THEN SubSeq(host, 1, (CHOOSE k \in 1..Len(host) :
                             host[k] = ":" /\ \A j \in 1..(k - 1) : host[j] # ":") - 1)
    ELSE host

\* C2 (as stated): whenever the registry holds a record for n, an HTTP request
\* for host "<n>.localhost" is forwarded to the target stored for n and is not
\* answered 404.
C2_RegisteredIsReachable ==
    \A n \in DOMAIN db :
        (last.op = "http" /\ last.host = n \o <<".", "localhost">>)
            => /\ last.out.forward
               /\ last.out.status # 404
               /\ last.out.target = db[n].target

\* C3: an HTTP request whose service name (first label of its hostname) has
\* no registry entry is answered 404 with the body {status: 'error',
\* message: 'Container not found'}, is not handed to the proxy, and does not
\* bring the process down.
C3_UnknownNameIs404 ==
    (/\ last.op = "http"
     /\ last.host # <<>>
     /\ FirstLabel(HostnameOf(last.host)) \notin DOMAIN db)
        => /\ last.out.status = 404
           /\ last.out.body = [status |-> "error", message |-> "Container not found"]
           /\ ~last.out.forward
           /\ \A k \in 1..Len(inflight) : inflight[k].target # <<>>
           /\ ~crashed

\* C3 witness: unknown.localhost answered 404 while another name is registered
C3_Witness ==
    /\ last.op = "http"
    /\ last.host = <<"unknown", ".", "localhost">>
    /\ last.out.status = 404
    /\ <<"web1">> \in DOMAIN db

\* the start events that were registered under name n, by delivery order
RegisteredAs(n) ==
    {i \in 1..Len(tasks) : tasks[i].pc = "registered" /\ tasks[i].rec.containerName = n}

NonePending == \A i \in 1..Len(tasks) : tasks[i].pc # "await"

\* C4 (as stated): once the start events delivered for a name have all been
\* processed, the registry holds the record of the one delivered last,
\* whatever the order in which their inspections settled.
C4_LastDeliveredWins ==
    NonePending =>
        \A n \in DOMAIN db :
            db[n] = tasks[CHOOSE i \in RegisteredAs(n) :
                             \A j \in RegisteredAs(n) : j <= i].rec

\* C4 (amended): the registry holds, whole, the record of the start event
\* whose db.set ran last for that name: ip, port and target all come from
\* that one inspection.
C4_LastPutWins ==
    \A n \in DOMAIN db :
        /\ n \in DOMAIN writer
        /\ writer[n] \in RegisteredAs(n)
        /\ db[n] = tasks[writer[n]].rec
        /\ db[n].target = <<"http://", db[n].ipAddress, ":", ToString(db[n].defaultPort)>>

\* C4 witness: two events registered under one name with different targets,
\* the first delivered stored last
C4_Witness ==
    /\ Len(tasks) >= 2
    /\ NonePending
    /\ RegisteredAs(<<"web1">>) = {1, 2}
    /\ tasks[1].rec # tasks[2].rec
    /\ writer[<<"web1">>] = 1
    /\ db[<<"web1">>] = tasks[1].rec

\* the handler that ran last received one JSON event
GotEvent == last.op = "data" /\ Len(last.chunk) = 1

\* C5: a container start event without Actor.ID, or without Actor, leaves the
\* registry unchanged, starts no inspection, and leaves the process and the
\* subscription running.
C5_MissingActorDiscarded ==
    [][(/\ last'.op = "data"
        /\ Len(last'.chunk) = 1
        /\ last'.chunk[1].Type = "container"
        /\ last'.chunk[1].Action = "start"
        /\ (~last'.chunk[1].Actor.present \/ last'.chunk[1].Actor.ID = Undefined))
          => /\ db' = db
             /\ tasks' = tasks
             /\ ~last'.inspect
             /\ ~crashed'
             /\ feed' = "open"]_vars

\* C5 witness: a start event without Actor was discarded after an earlier
\* event had been registered
C5_Witness ==
    /\ GotEvent
    /\ last.chunk[1].Type = "container"
    /\ last.chunk[1].Action = "start"
    /\ ~last.chunk[1].Actor.present
    /\ DOMAIN db # {}
    /\ ~crashed

\* C6: a start event whose container declares no TCP port (ExposedPorts
\* absent, empty or without a TCP entry) leaves the registry unchanged.
C6_NoTcpPortNoMutation ==
    [][(/\ last'.op = "inspected"
        /\ last'.result.ok
        /\ TcpPositions(last'.result.info) = {})
          => db' = db]_vars

\* C6 witness: such an event for a name that already has a record
C6_Witness ==
    /\ Inspected
    /\ PortKeysOf(last.result.info) = <<Udp53>>
    /\ ServiceNameOf(last.result.info) \in DOMAIN db

\* C7: an upgrade that is not handed off ends with a status line: 400 without
\* a host header, 404 when the name has no registry entry, 502 when the stored
\* target is unusable or the backend cannot be reached.
C7_UpgradeFailureHasStatusLine ==
    /\ (last.op = "upgrade" /\ last.host = <<>>)
          => last.out.line = "HTTP/1.1 400 Bad Request" /\ ~last.out.forward
    /\ (last.op = "upgrade" /\ last.host # <<>> /\ FirstLabel(last.host) \notin DOMAIN db)
          => last.out.line = "HTTP/1.1 404 Not Found" /\ ~last.out.forward
    /\ (last.op = "upgrade" /\ ~last.out.forward)
          => last.out.line # "none" /\ last.out.status \in {400, 404, 502}
    /\ (last.op = "backendError" /\ last.req.kind = "ws")
          => /\ last.out.line = "HTTP/1.1 502 Bad Gateway"
             /\ last.out.status = 502
             /\ ~crashed
    /\ (last.op = "backendUpgrade" /\ ~last.handoff) => last.line # "none"

\* C7 witness: the backend of an upgrade could not be reached
C7_Witness ==
    /\ last.op = "backendError"
    /\ last.req.kind = "ws"
    /\ last.out.status = 502

\* C8 (as stated): the request path and the upgrade path derive the same
\* service name from a host header, and so reach the same lookup result.
C8_SameNameOnBothPaths ==
    /\ (last.op = "http" /\ last.host # <<>>)
          => /\ last.out.subdomain = RouteUpgrade(db, last.host).subdomain
             /\ last.out.forward = RouteUpgrade(db, last.host).forward
    /\ (last.op = "upgrade" /\ last.host # <<>>)
          => /\ last.out.subdomain = RouteRequest(db, last.host).subdomain
             /\ last.out.forward = RouteRequest(db, last.host).forward

\* C9 (as stated): a backend failure during HTTP forwarding, before or after
\* the backend's response has started, is answered 502 and does not bring the
\* process down.
C9_BackendFailureIs502 ==
    (last.op = "backendError" /\ last.req.kind = "http")
        => /\ last.out.status = 502
           /\ ~last.out.threw
           /\ ~crashed

\* C10: an event that is not a container start leaves the registry unchanged
\* and starts no inspection.
C10_OtherEventsIgnored ==
    [][(/\ last'.op = "data"
        /\ Len(last'.chunk) = 1
        /\ ~(last'.chunk[1].Type = "container" /\ last'.chunk[1].Action = "start"))
          => /\ db' = db
             /\ tasks' = tasks
             /\ ~last'.inspect]_vars

\* C10 witness: a container die event received while its name is registered
C10_Witness ==
    /\ GotEvent
    /\ last.chunk[1].Type = "container"
    /\ last.chunk[1].Action = "die"
    /\ DOMAIN db # {}

----------------------------------------------------------------------------
\* C11: a failed inspection call leaves the registry unchanged and is not
\* retried, and no bad event (unparsable chunk, missing actor, failed
\* inspection, failed resolution) stops discovery: the process and the
\* subscription stay up, so later start events are still processed.
C11_InspectFailureDiscarded ==
    [][/\ (last'.op = "inspected" /\ ~last'.result.ok)
            => /\ db' = db
               /\ last'.log = "Error inspecting container"
               /\ Len(tasks') = Len(tasks)
               /\ \A k \in 1..Len(tasks) : tasks'[k].pc = "await" => tasks[k].pc = "await"
               /\ tasks'[last'.task].pc = "discarded"
       /\ (\/ last'.op = "data" /\ last'.log # "none"
           \/ last'.op = "inspected" /\ last'.log # "Registering container")
            => /\ db' = db
               /\ crashed' = crashed
               /\ feed' = feed]_vars

\* C11 witness: the first start event's inspection was discarded and the
\* second start event has just been registered
C11_Witness ==
    /\ Len(tasks) >= 2
    /\ tasks[1].pc = "discarded"
    /\ Inspected
    /\ last.task = 2
    /\ tasks[2].pc = "registered"
    /\ tasks[2].rec.containerName \in DOMAIN db

----------------------------------------------------------------------------
\* C12: a registered name stays registered, and its record changes only by
\* the successful processing of a start event that resolves to that name; no
\* other event, request, proxy failure or management call touches it.
C12_RegisteredStaysRegistered ==
    [][\A n \in DOMAIN db :
          /\ n \in DOMAIN db'
          /\ db'[n] # db[n]
                => /\ last'.op = "inspected"
                   /\ last'.result.ok
                   /\ last'.log = "Registering container"
                   /\ ServiceNameOf(last'.result.info) = n]_vars

\* C12 witness: a container destroy event was received and the name
\* registered before it is still there
C12_Witness ==
    /\ GotEvent
    /\ last.chunk[1].Type = "container"
    /\ last.chunk[1].Action = "destroy"
    /\ <<"web1">> \in DOMAIN db
    /\ db[<<"web1">>].target = <<"http://", IpA, ":", "80">>

\* the handlers of the router, of the proxy and of the management API
RouterOps ==
    {"http", "upgrade", "backendError", "backendResponse", "backendEnd",
     "backendUpgrade", "management"}

\* C13: handling a request, an upgrade, a proxy outcome or a management call
\* leaves the registry unchanged, whatever the handler answers.
C13_OnlyDiscoveryWrites ==
    [][last'.op \in RouterOps => db' = db]_vars

\* C13 witness: a proxied request failed with 502 while its name is registered
C13_Witness ==
    /\ last.op = "backendError"
    /\ last.req.kind = "http"
    /\ last.out.status = 502
    /\ \E n \in DOMAIN db : db[n].target = last.req.target

----------------------------------------------------------------------------
\* C14: every registry record is whole: its key is its containerName, its
\* ipAddress is not empty, its defaultPort is a positive port number and its
\* target is "http://" + ipAddress + ":" + defaultPort.  So the router never
\* answers 500 "Invalid target configuration" and the upgrade handler never
\* answers 502 for an unusable target.
C14_RecordsWellFormed ==
    /\ \A n \in DOMAIN db :
          /\ db[n].containerName = n
          /\ db[n].ipAddress \notin {"", Null, Undefined}
          /\ db[n].defaultPort \in 1..65535
          /\ db[n].target = <<"http://", db[n].ipAddress, ":", ToString(db[n].defaultPort)>>
    /\ (last.op = "http" /\ last.host # <<>>) => last.out.status # 500
    /\ last.op = "upgrade" => last.out.status # 502

\* C14 witness: two names registered and a request forwarded to one of them
C14_Witness ==
    /\ Cardinality(DOMAIN db) = 2
    /\ last.op = "http"
    /\ last.out.forward
    /\ last.out.target = <<"http://", IpB, ":", "3000">>

----------------------------------------------------------------------------
\* C15 (as stated): the stored address is that of the first attached network,
\* and resolution fails for lack of an address only when no attached network
\* carries one.
C15_FailsOnlyWithoutAnyAddress ==
    Inspected =>
        /\ last.log = "Registering container"
              => db[ServiceNameOf(last.result.info)].ipAddress =
                    AddressesOf(last.result.info)[1]
        /\ last.log = "Could not determine IP address"
              => \A k \in 1..Len(AddressesOf(last.result.info)) :
                    AddressesOf(last.result.info)[k] = ""

\* C15 (amended): the stored address is that of the first attached network,
\* and resolution fails for lack of an address exactly when there is no
\* attached network or the first one carries no address, whatever the later
\* networks carry.
C15_FirstNetworkDecides ==
    Inspected =>
        /\ last.log = "Registering container"
              => db[ServiceNameOf(last.result.info)].ipAddress =
                    AddressesOf(last.result.info)[1]
        /\ last.log = "Could not determine IP address"
              <=> \/ AddressesOf(last.result.info) = <<>>
                  \/ AddressesOf(last.result.info)[1] = ""

\* C15 witness: a container whose first network has no address and whose
\* second network has one is not registered
C15_Witness ==
    /\ Inspected
    /\ AddressesOf(last.result.info) = <<"", IpB>>
    /\ last.log = "Could not determine IP address"
    /\ tasks[last.task].pc = "discarded"

FeedDown == feed \in {"failed", "closed"}

\* C17 (as stated): once the subscription has failed to open or has broken,
\* no step changes the registry.
C17_BrokenFeedFreezesRegistry ==
    [][FeedDown => db' = db]_vars

\* C17: the failure to open and the break change nothing but the state of the
\* subscription, and do not bring the process down.  From then on the
\* subscription stays down, no event is received and no inspection is
\* started; the registry changes only when an inspection that was pending at
\* the break settles, and no longer once none is pending.  A request or
\* upgrade handled after that is answered from the registry as it stands:
\* forwarded to the stored target of its name, or refused without forwarding.
C17_BrokenFeedStopsNewEvents ==
    [][/\ (feed # feed' /\ feed' \in {"failed", "closed"})
            => /\ ~crashed'
               /\ db' = db /\ tasks' = tasks /\ inflight' = inflight
       /\ FeedDown
            => /\ feed' = feed
               /\ last'.op # "data"
               /\ Len(tasks') = Len(tasks)
               /\ db' # db
                    => /\ last'.op = "inspected"
                       /\ tasks[last'.task].pc = "await"
               /\ NonePending => (db' = db /\ tasks' = tasks)
               /\ last'.op \in {"http", "upgrade"}
                    => /\ ~crashed'
                       /\ db' = db
                       /\ last'.out.forward
                            => /\ last'.out.subdomain \in DOMAIN db
                               /\ last'.out.target = db[last'.out.subdomain].target
                       /\ ~last'.out.forward => inflight' = inflight]_vars

\* the subscription has broken and an inspection that was pending at the
\* break has just registered its record
C17_Witness ==
    /\ feed = "closed"
    /\ ~crashed
    /\ last.op = "inspected"
    /\ tasks[last.task].pc = "registered"

(***************************************************************************)
(* C18.  Grouping of the feed into chunks.                                 *)
(***************************************************************************)
\* a container start event that names its container
WellFormedStart(e) ==
    /\ e.Type = "container"
    /\ e.Action = "start"
    /\ e.Actor.present
    /\ e.Actor.ID \in ContainerIds

\* C18 (as stated): whenever a chunk has been handled, an inspection has been
\* started for the well-formed container start events it carries, whether the
\* chunk carries one event or several.
C18_ChunkingDoesNotMatter ==
    last.op = "data"
        => \A k \in 1..Len(last.chunk) : WellFormedStart(last.chunk[k]) => last.inspect

(***************************************************************************)
(* C19.  Lookup and forwarding within one request.                         *)
(***************************************************************************)
\* C19: a request or upgrade is handled against one state of the registry,
\* which it leaves unchanged: it is refused as unknown only if its name has no
\* record, and if it is forwarded, its name has a record and the request is
\* handed to the proxy with the target stored in that record.  A step that
\* changes the registry leaves the requests already forwarded as they are.
C19_LookupSeesOneRegistryState ==
    [][/\ last'.op \in {"http", "upgrade"}
            => /\ db' = db
               /\ last'.out.status = 404 => last'.out.subdomain \notin DOMAIN db
               /\ ~last'.out.forward => inflight' = inflight
               /\ last'.out.forward
                    => /\ last'.out.subdomain \in DOMAIN db
                       /\ last'.out.target = db[last'.out.subdomain].target
                       /\ Len(inflight') = Len(inflight) + 1
                       /\ SubSeq(inflight', 1, Len(inflight)) = inflight
                       /\ inflight'[Len(inflight')].target
                              = db[last'.out.subdomain].target
       /\ db' # db => inflight' = inflight]_vars

\* a request was forwarded to the target stored for web1, and a later start
\* event has since registered another target for web1
C19_Witness ==
    /\ last.op = "inspected"
    /\ <<"web1">> \in DOMAIN db
    /\ \E k \in 1..Len(inflight) : inflight[k].target # db[<<"web1">>].target

====
